---- MODULE Spec2Model ----
(***************************************************************************)
(* A model of tools/update_integrity.py: the private registry integrity    *)
(* updater.  The registry is a directory tree                              *)
(*     <modules>/<module>/<version>/{source.json, patches/, overlay/}      *)
(* and update_integrity(module, version) recomputes the SRI digests of the *)
(* main archive, the patch files and the overlay files and rewrites        *)
(* source.json.                                                            *)
(*                                                                         *)
(* Byte strings are numbered: blob 0 is b"", blob 1 is b"a", blob 2 is     *)
(* b"b", blob 3 is b"c".  A JSON object (in a file or in memory, a Python  *)
(* dict) is the sequence of its members in document / insertion order.     *)
(* A directory is the sequence of the regular files below it in the order  *)
(* the file system lists them; that order is arbitrary but belongs to the  *)
(* directory, so it only changes when the directory is edited.             *)
(***************************************************************************)
EXTENDS Naturals, Sequences, FiniteSets, TLC

\* ---------------------------------------------------------------- bounds
MaxContent == 1
MaxFiles == 2
MaxEdits == 1

Blobs == 0..MaxContent

\* ------------------------------------------------------------ name spaces
ModuleNames == {"testmod", "missing"}
VersionNames == {"1.0.0", "2.0.0"}
DevNull == "file:///dev/null"
Remote == "https://example.com/testmod-1.0.0.tar.gz"
LockName == "MODULE.bazel.lock"
PatchPaths == {<<"test.patch">>, <<"sub", "test.patch">>}
OverlayPaths ==
    {<<"BUILD.bazel">>, <<"sub", "BUILD.bazel">>, <<LockName>>, <<"sub", LockName>>}
DirNames == {"patches", "overlay"}
\* The (module, version) pairs update_integrity is called with.
Targets == {<<"testmod", "1.0.0">>, <<"testmod", "2.0.0">>, <<"missing", "1.0.0">>}
CandidatePaths(dirname) == IF dirname = "patches" THEN PatchPaths ELSE OverlayPaths

\* ----------------------------------------------------------- Digest Engine
\* base64(sha256(data)) of the four byte strings b"", b"a", b"b", b"c".
Sha256B64 ==
    << "47DEQpj8HBSa+/TImW+5JCeuQeRkm5NMpJWZG3hSuFU=",
       "ypeBEsobvcr6wjGzmiPcTaeG7/gUfE5yuYB3ha/uSLs=",
       "PiPoFgA5WUoziU9lZOGxNIu9egCI1CxKy3PurtWcAJ0=",
       "Ln0sA6lQeuJl7PW1NWiFpTOTogKdJBOUmXJloaJa78Y=" >>

integrity(data) == "sha256" \o "-" \o Sha256B64[data + 1]

\* ------------------------------------------------- ordered dicts (Python)
\* A member of a JSON object / an item of a dict.  A value is a string or a
\* nested object; the two kinds share one record shape.
Str(k, s) == [key |-> k, kind |-> "str", str |-> s, map |-> <<>>]
Map(k, m) == [key |-> k, kind |-> "map", str |-> "", map |-> m]

Keys(d) == {d[i].key : i \in 1..Len(d)}
Has(d, k) == k \in Keys(d)
IndexOf(d, k) == CHOOSE i \in 1..Len(d) : d[i].key = k
Get(d, k) == d[IndexOf(d, k)]

\* Mutant of DictSet: an assignment moves the key to the end.
DictSetMoveToEnd(d, e) == Append(SelectSeq(d, LAMBDA x : x.key # e.key), e)

\* d[k] = v: an existing key keeps its position, a new key goes last.
DictSet(d, e) ==
    IF Has(d, e.key) THEN [d EXCEPT ![IndexOf(d, e.key)] = e] ELSE Append(d, e)

\* d.pop(k, None)
DictPop(d, k) == SelectSeq(d, LAMBDA e : e.key # k)

RECURSIVE DictFromPairs(_)
\* dict(pairs): items are assigned left to right.
DictFromPairs(pairs) ==
    IF pairs = <<>> THEN <<>>
    ELSE DictSet(DictFromPairs(SubSeq(pairs, 1, Len(pairs) - 1)), pairs[Len(pairs)])

\* json.load of an object: on a repeated member name the last value wins.
json_load(members) == DictFromPairs(members)

\* ------------------------------------------------------------ file system
NoFile == [exists |-> FALSE, members |-> <<>>]
File(members) == [exists |-> TRUE, members |-> members]
NoDir == [exists |-> FALSE, files |-> <<>>]
Dir(files) == [exists |-> TRUE, files |-> files]
F(path, data) == [path |-> path, data |-> data]

NoVersion == [exists |-> FALSE, source |-> NoFile, patches |-> NoDir, overlay |-> NoDir]
Version(source, patches, overlay) ==
    [exists |-> TRUE, source |-> source, patches |-> patches, overlay |-> overlay]
NoModule == [exists |-> FALSE, versions |-> [v \in VersionNames |-> NoVersion]]

\* Mutant of get_source_json_path: the version is not part of the path.
get_source_json_path_one_version(module_name, version) ==
    <<module_name, "1.0.0", "source.json">>

get_source_json_path(module_name, version) == <<module_name, version, "source.json">>
get_overlay_dir(module_name, version) == <<module_name, version, "overlay">>
get_patches_dir(module_name, version) == <<module_name, version, "patches">>

VersionAt(tree, p) == tree[p[1]].versions[p[2]]
DirAt(tree, p) == IF p[3] = "patches" THEN VersionAt(tree, p).patches
                  ELSE VersionAt(tree, p).overlay

\* pathlib.Path.exists() of a source.json, a patches or an overlay path.
PathExists(tree, p) ==
    /\ tree[p[1]].exists
    /\ VersionAt(tree, p).exists
    /\ IF p[3] = "source.json" THEN VersionAt(tree, p).source.exists
       ELSE DirAt(tree, p).exists

module_exists(tree, module_name, version) ==
    IF ~tree[module_name].exists THEN FALSE
    ELSE tree[module_name].versions[version].exists

\* open(file_path, "w") + json.dump(data, sort_keys=False): the file is
\* replaced by the members of data in dict order.
json_dump(tree, file_path, data) ==
    [tree EXCEPT ![file_path[1]].versions[file_path[2]].source = File(data)]

\* ----------------------------------------------------- directory listing
Name(path) == path[Len(path)]

RECURSIVE PathStr(_)
\* str(path.relative_to(dir))
PathStr(path) ==
    IF Len(path) = 1 THEN path[1] ELSE path[1] \o "/" \o PathStr(Tail(path))

FileNode(f) == [path |-> f.path, is_file |-> TRUE, data |-> f.data]
DirNode(path) == [path |-> path, is_file |-> FALSE, data |-> 0]

FirstUnder(files, i, n) ==
    \A j \in 1..(i - 1) :
        ~(Len(files[j].path) > n /\ SubSeq(files[j].path, 1, n) = SubSeq(files[i].path, 1, n))

RECURSIVE iterdir(_, _)
\* Path.iterdir(): the immediate children, files and sub-directories.
iterdir(files, i) ==
    IF i > Len(files) THEN <<>>
    ELSE (IF Len(files[i].path) = 1 THEN <<FileNode(files[i])>>
          ELSE IF FirstUnder(files, i, 1) THEN <<DirNode(SubSeq(files[i].path, 1, 1))>>
          ELSE <<>>) \o iterdir(files, i + 1)

RECURSIVE AncestorNodes(_, _, _)
AncestorNodes(files, i, n) ==
    IF n >= Len(files[i].path) THEN <<>>
    ELSE (IF FirstUnder(files, i, n) THEN <<DirNode(SubSeq(files[i].path, 1, n))>>
          ELSE <<>>) \o AncestorNodes(files, i, n + 1)

RECURSIVE rglob(_, _)
\* Path.rglob("*"): every file and sub-directory below, at any depth.
rglob(files, i) ==
    IF i > Len(files) THEN <<>>
    ELSE AncestorNodes(files, i, 1) \o <<FileNode(files[i])>> \o rglob(files, i + 1)

\* ------------------------------------------------------------ collaborators
\* What the environment does to one call: whether the fetch fails, and which
\* files cannot be read (<<directory, path>> pairs).
NoFaults == [fetch |-> FALSE, unreadable |-> {}]

\* The faults that can meet a call on (module_name, version): the fetch fails,
\* or one of the files that are there cannot be read.
Faults(tree, module_name, version) ==
    IF ~module_exists(tree, module_name, version) THEN {NoFaults}
    ELSE LET ver == tree[module_name].versions[version]
             there == {<<"patches", ver.patches.files[i].path>> : i \in 1..Len(ver.patches.files)}
                      \cup {<<"overlay", ver.overlay.files[i].path>> : i \in 1..Len(ver.overlay.files)}
         IN  {NoFaults, [fetch |-> TRUE, unreadable |-> {}]}
                 \cup {[fetch |-> FALSE, unreadable |-> {u}] : u \in there}

\* download(url): file:///dev/null yields b"", the remote url the archive.
download(url, arch) == IF url = DevNull THEN 0 ELSE arch

\* read_file(path) raises for an unreadable file.
Readable(faults, dirname, node) == <<dirname, node.path>> \notin faults.unreadable

\* --------------------------------------------------------- update_integrity
Ok(source) == [status |-> "ok", source |-> source]
Fail(status, source) == [status |-> status, source |-> source]

\* Mutant of LoadSource: a missing source.json loads as an empty record.
LoadSourceDefault(tree, module_name, version) ==
    IF ~module_exists(tree, module_name, version) THEN Fail("NotFound", <<>>)
    ELSE IF ~PathExists(tree, get_source_json_path(module_name, version)) THEN Ok(<<>>)
    ELSE Ok(json_load(VersionAt(tree, get_source_json_path(module_name, version)).source.members))

\* module_exists + get_source: the record as loaded, or not found.
LoadSource(tree, module_name, version) ==
    IF ~module_exists(tree, module_name, version) THEN Fail("NotFound", <<>>)
    ELSE IF ~PathExists(tree, get_source_json_path(module_name, version))
         THEN Fail("NotFound", <<>>)
    ELSE Ok(json_load(VersionAt(tree, get_source_json_path(module_name, version)).source.members))

\* Mutant of UpdateArchive: an integrity the record already has is kept.
UpdateArchiveKeepExisting(source, arch, faults) ==
    IF Has(source, "url") /\ ~Has(source, "integrity")
    THEN IF faults.fetch THEN Fail("RetrievalError", source)
         ELSE Ok(DictSet(source,
                         Str("integrity", integrity(download(Get(source, "url").str, arch)))))
    ELSE Ok(source)

\* Mutant of UpdateArchive: without a url the integrity is removed.
UpdateArchiveDropIntegrity(source, arch, faults) ==
    IF Has(source, "url")
    THEN IF faults.fetch THEN Fail("RetrievalError", source)
         ELSE Ok(DictSet(source,
                         Str("integrity", integrity(download(Get(source, "url").str, arch)))))
    ELSE Ok(DictPop(source, "integrity"))

\* "Update main archive integrity"
UpdateArchive(source, arch, faults) ==
    IF Has(source, "url")
    THEN IF faults.fetch THEN Fail("RetrievalError", source)
         ELSE Ok(DictSet(source,
                         Str("integrity", integrity(download(Get(source, "url").str, arch)))))
    ELSE Ok(source)

RECURSIVE PatchDigests(_)
\* for patch_file in available_patches: patches[patch_file.name] = integrity(...)
PatchDigests(nodes) ==
    IF nodes = <<>> THEN <<>>
    ELSE DictSet(PatchDigests(SubSeq(nodes, 1, Len(nodes) - 1)),
                 Str(Name(nodes[Len(nodes)].path), integrity(nodes[Len(nodes)].data)))

RECURSIVE MergeInto(_, _)
MergeInto(d, items) ==
    IF items = <<>> THEN d
    ELSE DictSet(MergeInto(d, SubSeq(items, 1, Len(items) - 1)), items[Len(items)])

available_patches(tree, patches_dir) ==
    SelectSeq(iterdir(DirAt(tree, patches_dir).files, 1), LAMBDA p : p.is_file)

\* Mutant of UpdatePatches: the new digests are merged into the old mapping.
UpdatePatchesMerge(tree, module_name, version, source, faults) ==
    LET patches_dir == get_patches_dir(module_name, version)
        available == available_patches(tree, patches_dir)
        current_patches == IF Has(source, "patches") THEN Get(source, "patches").map ELSE <<>>
    IN  IF PathExists(tree, patches_dir)
        THEN IF available # <<>>
             THEN IF \E i \in 1..Len(available) : ~Readable(faults, "patches", available[i])
                  THEN Fail("IOError", source)
                  ELSE Ok(DictSet(source,
                                  Map("patches", MergeInto(current_patches, PatchDigests(available)))))
             ELSE Ok(DictPop(source, "patches"))
        ELSE Ok(DictPop(source, "patches"))

\* Mutant of UpdatePatches: without patch files the mapping is emptied, not removed.
UpdatePatchesEmptyMapping(tree, module_name, version, source, faults) ==
    LET patches_dir == get_patches_dir(module_name, version)
        available == available_patches(tree, patches_dir)
    IN  IF PathExists(tree, patches_dir)
        THEN IF \E i \in 1..Len(available) : ~Readable(faults, "patches", available[i])
             THEN Fail("IOError", source)
             ELSE Ok(DictSet(source, Map("patches", PatchDigests(available))))
        ELSE Ok(DictPop(source, "patches"))

\* "Update patches integrity"
UpdatePatches(tree, module_name, version, source, faults) ==
    LET patches_dir == get_patches_dir(module_name, version)
        available == available_patches(tree, patches_dir)
    IN  IF PathExists(tree, patches_dir)
        THEN IF available # <<>>
             THEN IF \E i \in 1..Len(available) : ~Readable(faults, "patches", available[i])
                  THEN Fail("IOError", source)
                  ELSE Ok(DictSet(source, Map("patches", PatchDigests(available))))
             ELSE Ok(DictPop(source, "patches"))
        ELSE Ok(DictPop(source, "patches"))

RECURSIVE OverlayDigests(_)
\* for overlay_file in overlay_files: overlay[relative_path] = integrity(...)
OverlayDigests(nodes) ==
    IF nodes = <<>> THEN <<>>
    ELSE DictSet(OverlayDigests(SubSeq(nodes, 1, Len(nodes) - 1)),
                 Str(PathStr(nodes[Len(nodes)].path), integrity(nodes[Len(nodes)].data)))

\* Mutant of overlay_files: the lock file is recognised by its relative path.
overlay_files_lock_by_path(tree, overlay_dir) ==
    SelectSeq(rglob(DirAt(tree, overlay_dir).files, 1),
              LAMBDA p : p.is_file /\ PathStr(p.path) # LockName)

overlay_files(tree, overlay_dir) ==
    SelectSeq(rglob(DirAt(tree, overlay_dir).files, 1),
              LAMBDA p : p.is_file /\ Name(p.path) # LockName)

\* Mutant of UpdateOverlay: a file that cannot be read is skipped.
UpdateOverlaySkipUnreadable(tree, module_name, version, source, faults) ==
    LET overlay_dir == get_overlay_dir(module_name, version)
        files == SelectSeq(overlay_files(tree, overlay_dir),
                           LAMBDA p : Readable(faults, "overlay", p))
    IN  IF PathExists(tree, overlay_dir)
        THEN IF files # <<>>
             THEN Ok(DictSet(source, Map("overlay", OverlayDigests(files))))
             ELSE Ok(DictPop(source, "overlay"))
        ELSE Ok(DictPop(source, "overlay"))

\* "Update overlay integrity"
UpdateOverlay(tree, module_name, version, source, faults) ==
    LET overlay_dir == get_overlay_dir(module_name, version)
        files == overlay_files(tree, overlay_dir)
    IN  IF PathExists(tree, overlay_dir)
        THEN IF files # <<>>
             THEN IF \E i \in 1..Len(files) : ~Readable(faults, "overlay", files[i])
                  THEN Fail("IOError", source)
                  ELSE Ok(DictSet(source, Map("overlay", OverlayDigests(files))))
             ELSE Ok(DictPop(source, "overlay"))
        ELSE Ok(DictPop(source, "overlay"))

\* Mutant of WriteSource: only the fields the updater knows are written.
WriteSourceKnownFields(tree, module_name, version, source) ==
    json_dump(tree, get_source_json_path(module_name, version),
              SelectSeq(source, LAMBDA e : e.key \in {"url", "integrity", "strip_prefix",
                                                      "patches", "overlay"}))

\* "Write updated source.json"
WriteSource(tree, module_name, version, source) ==
    json_dump(tree, get_source_json_path(module_name, version), source)

\* The whole call: the status it ends with, the tree it leaves, and whether
\* it called download.
update_integrity(tree, arch, module_name, version, faults) ==
    LET Result(status, t, fetched) == [status |-> status, tree |-> t, fetched |-> fetched]
        AfterOverlay(o, fetched) ==
            IF o.status # "ok" THEN Result(o.status, tree, fetched)
            ELSE Result("ok", WriteSource(tree, module_name, version, o.source), fetched)
        AfterPatches(p, fetched) ==
            IF p.status # "ok" THEN Result(p.status, tree, fetched)
            ELSE AfterOverlay(UpdateOverlay(tree, module_name, version, p.source, faults),
                              fetched)
        AfterArchive(a, fetched) ==
            IF a.status # "ok" THEN Result(a.status, tree, fetched)
            ELSE AfterPatches(UpdatePatches(tree, module_name, version, a.source, faults),
                              fetched)
        AfterLoad(loaded) ==
            IF loaded.status # "ok" THEN Result(loaded.status, tree, FALSE)
            ELSE AfterArchive(UpdateArchive(loaded.source, arch, faults),
                              Has(loaded.source, "url"))
    IN  AfterLoad(LoadSource(tree, module_name, version))

\* =================================================================== state
VARIABLES
    fs,        \* the registry: module |-> version |-> source.json, patches/, overlay/
    archive,   \* the bytes behind the remote url
    last,      \* the last operation: what it was, how it ended, the tree before it
    edits,     \* how many edits the environment has made
    inv        \* the update_integrity calls in progress, one per process

vars == <<fs, archive, last, edits, inv>>

Procs == {1, 2}

\* ------------------------------------------------------------ initial data
StaleDigest == "sha256-c3RhbGU="

\* source.json files an update may find.
InitSources ==
    { \* the test's record
      File(<< Str("url", DevNull), Str("integrity", "old-invalid-hash"),
              Str("strip_prefix", "testmod-1.0.0") >>),
      \* mappings first, with entries for files that are gone or have changed
      File(<< Map("patches", << Str("gone.patch", StaleDigest), Str("test.patch", StaleDigest) >>),
              Str("url", Remote),
              Map("overlay", << Str("old/BUILD.bazel", StaleDigest), Str("BUILD.bazel", integrity(0)) >>),
              Str("maintainer", "nick") >>),
      \* no url, yet an integrity; empty mappings
      File(<< Str("integrity", integrity(0)), Map("patches", <<>>),
              Str("type", "git_repository"), Map("overlay", <<>>) >>),
      \* no url, no integrity
      File(<< Str("type", "git_repository"), Str("remote", "https://example.com/testmod.git") >>),
      \* a member name used twice
      File(<< Str("strip_prefix", "a"), Str("url", Remote), Str("strip_prefix", "b") >>),
      \* no source.json in the version directory
      NoFile }

\* patches/ and overlay/ directories an update may find; the edits reach the
\* others.
InitPatches ==
    { NoDir, Dir(<<>>), Dir(<< F(<<"sub", "test.patch">>, 0), F(<<"test.patch">>, 0) >>) }
InitOverlays ==
    { NoDir, Dir(<< F(<<"sub", LockName>>, 0) >>),
      Dir(<< F(<<"sub", "BUILD.bazel">>, 0), F(<<"BUILD.bazel">>, 0) >>) }

Registry(v1, v2) ==
    [m \in ModuleNames |->
        IF m = "testmod"
        THEN [exists |-> TRUE,
              versions |-> [v \in VersionNames |-> IF v = "1.0.0" THEN v1 ELSE v2]]
        ELSE NoModule]

Idle == [pc |-> "idle", module |-> "testmod", version |-> "1.0.0", faults |-> NoFaults,
         source |-> <<>>, fetched |-> FALSE, status |-> "ok"]

Start(tree, arch) ==
    [op |-> "init", module |-> "testmod", version |-> "1.0.0", status |-> "ok",
     pre |-> tree, arch |-> arch, fetched |-> FALSE, repeat |-> FALSE]

Init ==
    /\ \E src \in InitSources, p \in InitPatches, o \in InitOverlays :
          fs = Registry(Version(src, p, o), NoVersion)
    /\ archive = 0
    /\ last = Start(fs, archive)
    /\ edits = 0
    /\ inv = [p \in Procs |-> Idle]

\* ------------------------------------------------ the environment's edits
SetDir(tree, m, v, dirname, d) ==
    IF dirname = "patches" THEN [tree EXCEPT ![m].versions[v].patches = d]
    ELSE [tree EXCEPT ![m].versions[v].overlay = d]

InsertAt(files, pos, f) ==
    SubSeq(files, 1, pos - 1) \o <<f>> \o SubSeq(files, pos, Len(files))

Edited(tree, arch) ==
    [op |-> "edit", module |-> "testmod", version |-> "1.0.0", status |-> "ok",
     pre |-> tree, arch |-> arch, fetched |-> FALSE, repeat |-> FALSE]

EditDir(m, v, dirname, d) ==
    /\ fs' = SetDir(fs, m, v, dirname, d)
    /\ edits' = edits + 1
    /\ last' = Edited(SetDir(fs, m, v, dirname, d), archive)
    /\ UNCHANGED <<archive, inv>>

\* A new file appears somewhere in the listing.
CreateFile(m, v, dirname) ==
    LET d == DirAt(fs, <<m, v, dirname>>)
    IN  /\ edits < MaxEdits
        /\ PathExists(fs, <<m, v, dirname>>)
        /\ Len(d.files) < MaxFiles
        /\ \E path \in CandidatePaths(dirname), data \in Blobs, pos \in 1..(Len(d.files) + 1) :
              /\ \A i \in 1..Len(d.files) : d.files[i].path # path
              /\ EditDir(m, v, dirname, Dir(InsertAt(d.files, pos, F(path, data))))

\* A file gets other bytes.
ChangeFile(m, v, dirname) ==
    LET d == DirAt(fs, <<m, v, dirname>>)
    IN  /\ edits < MaxEdits
        /\ PathExists(fs, <<m, v, dirname>>)
        /\ \E i \in 1..Len(d.files), data \in Blobs :
              /\ d.files[i].data # data
              /\ EditDir(m, v, dirname, Dir([d.files EXCEPT ![i].data = data]))

DeleteFile(m, v, dirname) ==
    LET d == DirAt(fs, <<m, v, dirname>>)
    IN  /\ edits < MaxEdits
        /\ PathExists(fs, <<m, v, dirname>>)
        /\ \E i \in 1..Len(d.files) :
              EditDir(m, v, dirname,
                      Dir(SubSeq(d.files, 1, i - 1) \o SubSeq(d.files, i + 1, Len(d.files))))

MakeDir(m, v, dirname) ==
    /\ edits < MaxEdits
    /\ module_exists(fs, m, v)
    /\ ~PathExists(fs, <<m, v, dirname>>)
    /\ EditDir(m, v, dirname, Dir(<<>>))

RemoveDir(m, v, dirname) ==
    /\ edits < MaxEdits
    /\ PathExists(fs, <<m, v, dirname>>)
    /\ EditDir(m, v, dirname, NoDir)

\* The remote archive is republished with other bytes.
ChangeArchive ==
    /\ edits < MaxEdits
    /\ \E data \in Blobs : data # archive /\ archive' = data /\ last' = Edited(fs, data)
    /\ edits' = edits + 1
    /\ UNCHANGED <<fs, inv>>

\* ------------------------------------------------ update_integrity, a call
Update(m, v) ==
    \E faults \in Faults(fs, m, v) :
        \E r \in {update_integrity(fs, archive, m, v, faults)} :
            /\ fs' = r.tree
            /\ last' = [op |-> "update", module |-> m, version |-> v, status |-> r.status,
                        pre |-> fs, arch |-> archive, fetched |-> r.fetched,
                        repeat |-> /\ last.op = "update" /\ last.status = "ok"
                                   /\ last.module = m /\ last.version = v]
            /\ UNCHANGED <<archive, edits, inv>>

Next ==
    \/ \E t \in Targets : Update(t[1], t[2])
    \/ \E t \in Targets, dirname \in DirNames : CreateFile(t[1], t[2], dirname)
    \/ \E t \in Targets, dirname \in DirNames : ChangeFile(t[1], t[2], dirname)
    \/ \E t \in Targets, dirname \in DirNames : DeleteFile(t[1], t[2], dirname)
    \/ \E t \in Targets, dirname \in DirNames : MakeDir(t[1], t[2], dirname)
    \/ \E t \in Targets, dirname \in DirNames : RemoveDir(t[1], t[2], dirname)
    \/ ChangeArchive

Spec == Init /\ [][Next]_vars

\* ============================================== update_integrity, by steps
\* Two calls run side by side, each on its own (module, version); a call is
\* the sequence load, archive, patches, overlay, write of update_integrity,
\* and it stops at the first step that raises.

\* Version directories the two calls may find.
ConcVersions ==
    { Version(File(<< Str("url", DevNull), Str("integrity", "old-invalid-hash"),
                      Str("strip_prefix", "testmod-1.0.0") >>),
              Dir(<< F(<<"test.patch">>, 1) >>),
              Dir(<< F(<<"BUILD.bazel">>, 0), F(<<"sub", "BUILD.bazel">>, 1) >>)),
      Version(File(<< Map("overlay", << Str("old/BUILD.bazel", StaleDigest) >>),
                      Str("url", Remote), Str("maintainer", "nick") >>),
              Dir(<< F(<<"sub", "test.patch">>, 0) >>),
              Dir(<< F(<<LockName>>, 1), F(<<"BUILD.bazel">>, 1) >>)),
      Version(File(<< Str("type", "git_repository"),
                      Map("patches", << Str("test.patch", StaleDigest) >>) >>),
              NoDir,
              Dir(<< F(<<"sub", "BUILD.bazel">>, 0) >>)),
      Version(NoFile, Dir(<< F(<<"test.patch">>, 0) >>), NoDir) }

InitConc ==
    /\ \E v1 \in ConcVersions, v2 \in ConcVersions : fs = Registry(v1, v2)
    /\ archive \in Blobs
    /\ last = Start(fs, archive)
    /\ edits = 0
    /\ inv = [p \in Procs |-> Idle]

Running(p) == inv[p].pc \notin {"idle", "done", "failed"}

Goto(p, pc, r) ==
    inv' = [inv EXCEPT ![p].pc = IF r.status = "ok" THEN pc ELSE "failed",
                       ![p].status = r.status,
                       ![p].source = r.source]

\* A caller starts update_integrity(m, v); calls on the same version are
\* the caller's to serialize.
Invoke(p, m, v) ==
    /\ inv[p].pc = "idle"
    /\ \A q \in Procs \ {p} : inv[q].pc = "idle" \/ <<inv[q].module, inv[q].version>> # <<m, v>>
    /\ \E faults \in Faults(fs, m, v) :
          inv' = [inv EXCEPT ![p] = [pc |-> "load", module |-> m, version |-> v,
                                     faults |-> faults, source |-> <<>>,
                                     fetched |-> FALSE, status |-> "ok"]]
    /\ UNCHANGED <<fs, archive, last, edits>>

LoadStep(p) ==
    /\ inv[p].pc = "load"
    /\ Goto(p, "archive", LoadSource(fs, inv[p].module, inv[p].version))
    /\ UNCHANGED <<fs, archive, last, edits>>

ArchiveStep(p) ==
    /\ inv[p].pc = "archive"
    /\ \E r \in {UpdateArchive(inv[p].source, archive, inv[p].faults)} :
          inv' = [inv EXCEPT ![p].pc = IF r.status = "ok" THEN "patches" ELSE "failed",
                             ![p].status = r.status,
                             ![p].source = r.source,
                             ![p].fetched = Has(inv[p].source, "url")]
    /\ UNCHANGED <<fs, archive, last, edits>>

PatchesStep(p) ==
    /\ inv[p].pc = "patches"
    /\ Goto(p, "overlay",
            UpdatePatches(fs, inv[p].module, inv[p].version, inv[p].source, inv[p].faults))
    /\ UNCHANGED <<fs, archive, last, edits>>

OverlayStep(p) ==
    /\ inv[p].pc = "overlay"
    /\ Goto(p, "write",
            UpdateOverlay(fs, inv[p].module, inv[p].version, inv[p].source, inv[p].faults))
    /\ UNCHANGED <<fs, archive, last, edits>>

WriteStep(p) ==
    /\ inv[p].pc = "write"
    /\ fs' = WriteSource(fs, inv[p].module, inv[p].version, inv[p].source)
    /\ inv' = [inv EXCEPT ![p].pc = "done"]
    /\ UNCHANGED <<archive, last, edits>>

NextConc ==
    \/ \E p \in Procs, t \in Targets : Invoke(p, t[1], t[2])
    \/ \E p \in Procs : LoadStep(p)
    \/ \E p \in Procs : ArchiveStep(p)
    \/ \E p \in Procs : PatchesStep(p)
    \/ \E p \in Procs : OverlayStep(p)
    \/ \E p \in Procs : WriteStep(p)

SpecConc == InitConc /\ [][NextConc]_vars

\* ============================================================== properties
\* The call that just returned, the version directory it was about, and the
\* Source Record before and after it.
Updated == last.op = "update"
Succeeded == Updated /\ last.status = "ok"
Now == fs[last.module].versions[last.version]
Then == last.pre[last.module].versions[last.version]
Written == Now.source.members
Before == Then.source.members

\* The field k of a JSON object: the last member of that name.
Field(members, k) ==
    members[CHOOSE i \in 1..Len(members) :
                /\ members[i].key = k
                /\ \A j \in (i + 1)..Len(members) : members[j].key # k]
FirstIndex(members, k) ==
    CHOOSE i \in 1..Len(members) :
        members[i].key = k /\ \A j \in 1..(i - 1) : members[j].key # k
MapOf(members, k) == IF Has(members, k) THEN Field(members, k).map ELSE <<>>
IsMapping(members, k) == Has(members, k) => Field(members, k).kind = "map"
Reconciled == {"integrity", "patches", "overlay"}

\* The mapping has exactly the keys KeyOf(f) of the files f of `files` numbered
\* in `kept`, once each, each with the digest of the file's bytes.
Digested(mapping, files, kept, KeyOf(_)) ==
    /\ Keys(mapping) = {KeyOf(files[i]) : i \in kept}
    /\ Len(mapping) = Cardinality(kept)
    /\ \A i \in kept : /\ Field(mapping, KeyOf(files[i])).kind = "str"
                       /\ Field(mapping, KeyOf(files[i])).str = integrity(files[i].data)

\* The record's `overlay` holds the digests of the files under the overlay
\* directory, at any depth, that are not named MODULE.bazel.lock, by relative path.
OverlayDigested(record, dir) ==
    LET RelativePath(f) == PathStr(f.path)
    IN  Digested(MapOf(record, "overlay"), dir.files,
                 {i \in 1..Len(dir.files) : dir.files[i].path[Len(dir.files[i].path)] # LockName},
                 RelativePath)

\* The record's `patches` holds the digests of the files that are immediate
\* children of the patches directory, by file name.
PatchesDigested(record, dir) ==
    LET FileName(f) == f.path[1]
    IN  Digested(MapOf(record, "patches"), dir.files,
                 {i \in 1..Len(dir.files) : Len(dir.files[i].path) = 1}, FileName)

\* C1: after a successful update the keys of `overlay` are exactly the relative
\* paths of the files at any depth under overlay/ whose base name is not
\* MODULE.bazel.lock, each with the sha256 digest of the file's current bytes;
\* no entry of the previous mapping survives for a file that is gone.
OverlayReconciled ==
    Succeeded => IsMapping(Written, "overlay") /\ OverlayDigested(Written, Now.overlay)

\* C1's case: after an edit, an update of a record with a stale overlay entry,
\* over an overlay with a lock file and a file in a sub-directory.
OverlayReconciledWitness ==
    /\ Succeeded
    /\ edits > 0
    /\ Keys(MapOf(Before, "overlay")) \ Keys(MapOf(Written, "overlay")) # {}
    /\ \E i \in 1..Len(Now.overlay.files) : Name(Now.overlay.files[i].path) = LockName
    /\ Has(MapOf(Written, "overlay"), "sub/BUILD.bazel")

\* C2: after a successful update the keys of `patches` are exactly the names of
\* the files that are immediate children of patches/, each with the sha256
\* digest of its current bytes; the entry of a deleted file is dropped.
PatchesReconciled ==
    Succeeded => IsMapping(Written, "patches") /\ PatchesDigested(Written, Now.patches)

\* C2's case: test.patch was digested by an update, then deleted; the next
\* update drops it although patches/sub/ still holds a file.
PatchesReconciledWitness ==
    /\ Succeeded
    /\ edits > 0
    /\ Has(MapOf(Before, "patches"), "test.patch")
    /\ Field(MapOf(Before, "patches"), "test.patch").str = integrity(0)
    /\ ~Has(MapOf(Written, "patches"), "test.patch")
    /\ Now.patches.files # <<>>

\* C3: after a successful update, a patches/ (overlay/) directory that is
\* missing or empty leaves no `patches` (`overlay`) field, and no written
\* record has `patches` or `overlay` as an empty mapping.
AbsentWhenEmpty ==
    Succeeded =>
        /\ (~Now.patches.exists \/ Now.patches.files = <<>>) => ~Has(Written, "patches")
        /\ (~Now.overlay.exists \/ Now.overlay.files = <<>>) => ~Has(Written, "overlay")
        /\ \A k \in {"patches", "overlay"} :
              Has(Written, k) => Field(Written, k).kind = "map" /\ Field(Written, k).map # <<>>

\* C3's case: the record had both fields; patches/ is empty and overlay/ is
\* missing.
AbsentWhenEmptyWitness ==
    /\ Succeeded
    /\ Has(Before, "patches") /\ Now.patches.exists /\ Now.patches.files = <<>>
    /\ Has(Before, "overlay") /\ ~Now.overlay.exists
    /\ ~Has(Written, "patches") /\ ~Has(Written, "overlay")

\* C4: a successful update of a record with a url sets `integrity` to the
\* sha256 digest of the bytes fetched from the url, whatever it was before.
ArchiveDigested ==
    Succeeded /\ Has(Before, "url") =>
        /\ Has(Written, "integrity")
        /\ Field(Written, "integrity").kind = "str"
        /\ Field(Written, "integrity").str =
              "sha256-" \o Sha256B64[(IF Field(Before, "url").str = DevNull THEN 0
                                      ELSE last.arch) + 1]

\* C4's case: the test's record; the url yields b"" and the old integrity is
\* malformed.
ArchiveDigestedWitness ==
    /\ Succeeded
    /\ Has(Before, "url") /\ Field(Before, "url").str = DevNull
    /\ Has(Before, "integrity") /\ Field(Before, "integrity").str = "old-invalid-hash"
    /\ Field(Written, "integrity").str = "sha256-47DEQpj8HBSa+/TImW+5JCeuQeRkm5NMpJWZG3hSuFU="

\* C5: a successful update changes only `integrity`, `patches` and `overlay`:
\* every other field of the record is written back with its value, and no
\* other field appears.
FieldsPreserved ==
    Succeeded =>
        /\ \A k \in Keys(Before) \ Reconciled :
              Has(Written, k) /\ Field(Written, k) = Field(Before, k)
        /\ Keys(Written) \ Reconciled \subseteq Keys(Before)

\* C5's case: a record with custom metadata whose three fields all change.
FieldsPreservedWitness ==
    /\ Succeeded
    /\ Has(Written, "maintainer") /\ Has(Written, "url")
    /\ Has(Written, "integrity") /\ ~Has(Before, "integrity")
    /\ MapOf(Written, "patches") # MapOf(Before, "patches")
    /\ MapOf(Written, "overlay") # MapOf(Before, "overlay")

\* C6: a second update right after a successful one, with nothing changed in
\* between, leaves source.json as the first wrote it, and an update keeps the
\* fields that were in the record in the order they had.
Idempotent ==
    /\ Succeeded /\ last.repeat => fs = last.pre
    /\ Succeeded =>
          \A i, j \in 1..Len(Written) :
              i < j /\ Has(Before, Written[i].key) /\ Has(Before, Written[j].key)
                  => FirstIndex(Before, Written[i].key) < FirstIndex(Before, Written[j].key)

\* C6's case: the second of two updates in a row of a record that starts with
\* `patches` and has two overlay entries.
IdempotentWitness ==
    /\ Succeeded /\ last.repeat
    /\ Written[1].key = "patches"
    /\ Has(Written, "integrity")
    /\ Len(MapOf(Written, "overlay")) = 2

\* C8: a call for a module or version directory that does not exist, or whose
\* source.json is absent, fails as not found, fetches nothing and writes
\* nothing.
NotFoundNoEffect ==
    Updated /\ ~(/\ last.pre[last.module].exists
                 /\ Then.exists
                 /\ Then.source.exists) =>
        /\ last.status = "NotFound"
        /\ ~last.fetched
        /\ fs = last.pre

\* C8's case: update_integrity("missing", "1.0.0").
NotFoundNoEffectWitness ==
    /\ Updated /\ last.module = "missing" /\ last.version = "1.0.0"
    /\ last.status = "NotFound"

\* C9 as claimed: in a written record `integrity` is present if and only if
\* `url` is.
IntegrityIffUrl ==
    Succeeded => (Has(Written, "integrity") <=> Has(Written, "url"))

\* C9 as amended: in a written record `integrity` is present if `url` is; a
\* record without `url` keeps its `integrity` field as it was, present or
\* absent.
IntegrityFollowsUrl ==
    Succeeded =>
        /\ Has(Written, "url") => Has(Written, "integrity")
        /\ ~Has(Written, "url") =>
              /\ Has(Written, "integrity") <=> Has(Before, "integrity")
              /\ Has(Written, "integrity") =>
                    Field(Written, "integrity") = Field(Before, "integrity")

\* C9's case: a record without url that carried an integrity.
IntegrityFollowsUrlWitness ==
    /\ Succeeded
    /\ ~Has(Written, "url")
    /\ Has(Before, "integrity") /\ Has(Written, "integrity")

\* ------------------------------------------------- properties of the steps
Call(p) == inv[p]
CallThen(p) == last.pre[Call(p).module].versions[Call(p).version]
CallNow(p) == fs[Call(p).module].versions[Call(p).version]
Loadable(p) ==
    /\ last.pre[Call(p).module].exists
    /\ CallThen(p).exists
    /\ CallThen(p).source.exists

\* The fault of the call meets something the call does: the fetch of a
\* record with a url, the read of a patch file, the read of an overlay file.
FaultHits(p) ==
    \/ Call(p).faults.fetch /\ Has(CallThen(p).source.members, "url")
    \/ \E u \in Call(p).faults.unreadable :
          \/ u[1] = "patches" /\ Len(u[2]) = 1
          \/ u[1] = "overlay" /\ u[2][Len(u[2])] # LockName

\* C7: when the fetch or the read of a patch or overlay file fails, the call
\* fails (it skips no file) and source.json is as it was; source.json is
\* written only by the last step, after every digest.
AllOrNothing ==
    \A p \in Procs :
        Call(p).pc # "idle" /\ Loadable(p) =>
            /\ FaultHits(p) => Call(p).pc \notin {"write", "done"}
            /\ Call(p).pc = "failed" =>
                  FaultHits(p) /\ Call(p).status \in {"RetrievalError", "IOError"}
            /\ Call(p).pc # "done" => CallNow(p).source = CallThen(p).source
            /\ Call(p).pc \in {"write", "done"} =>
                  /\ Has(Call(p).source, "url") =>
                        /\ Has(Call(p).source, "integrity")
                        /\ Field(Call(p).source, "integrity").str
                              = integrity(download(Field(Call(p).source, "url").str, archive))
                  /\ PatchesDigested(Call(p).source, CallThen(p).patches)
                  /\ OverlayDigested(Call(p).source, CallThen(p).overlay)
            /\ Call(p).pc = "done" => CallNow(p).source = File(Call(p).source)

\* C7's case: a call that fetched the archive and then could not read an
\* overlay file.
AllOrNothingWitness ==
    \E p \in Procs :
        /\ Call(p).pc = "failed" /\ Call(p).status = "IOError"
        /\ Call(p).fetched
        /\ \E u \in Call(p).faults.unreadable : u[1] = "overlay"

\* C10: a call writes the source.json of its (module, version) and nothing
\* else; whatever the interleaving of two calls on different versions, each
\* source.json ends as the call run alone leaves it.
Independent ==
    \A m \in ModuleNames :
        /\ fs[m].exists = last.pre[m].exists
        /\ \A v \in VersionNames :
              LET cur == fs[m].versions[v]
                  old == last.pre[m].versions[v]
                  alone == update_integrity(last.pre, archive, m, v, NoFaults).tree[m].versions[v]
              IN  /\ cur.exists = old.exists
                  /\ cur.patches = old.patches
                  /\ cur.overlay = old.overlay
                  /\ cur.source =
                        IF \E p \in Procs : /\ Call(p).pc = "done"
                                            /\ Call(p).module = m /\ Call(p).version = v
                        THEN alone.source
                        ELSE old.source

\* C10's case: two calls on different versions have both returned, each
\* having changed its record.
IndependentWitness ==
    /\ Call(1).pc = "done" /\ Call(2).pc = "done"
    /\ <<Call(1).module, Call(1).version>> # <<Call(2).module, Call(2).version>>
    /\ CallNow(1).source # CallThen(1).source
    /\ CallNow(2).source # CallThen(2).source

====
